---------------------------- MODULE Spec2Model ----------------------------
(***************************************************************************)
(* A model of the Waggle packet codec (src/utils/packet.py) and of the two  *)
(* WagMan serial programs (src/wagman/wagman-driver.py and                 *)
(* src/wagman/wagman-publisher.py).                                        *)
(*                                                                         *)
(* Conventions of the model                                                *)
(*   - a Python byte string is a sequence of integers in 0..255; ord and   *)
(*     chr are the identity on that range, and chr raises ValueError       *)
(*     outside of it;                                                      *)
(*   - a "major.minor" version string is the pair <<major, minor>>;        *)
(*   - a flags tuple (a, b, f) is <<a, b, f>> with f a BOOLEAN;            *)
(*   - TLC's integers are 32 bits wide and signed, so a CRC-32 value is    *)
(*     carried as the pair <<high 16 bits, low 16 bits>>; every other      *)
(*     integer of the model stays below 2^31;                              *)
(*   - a call that raises returns a record whose exc field names the       *)
(*     exception; exc = "none" is a normal return with the value in val.   *)
(*   - a text string of the serial programs is a sequence of tokens, each  *)
(*     standing for the characters it spells: the markers "<<<-", "->>>"   *)
(*     and "log:", the whitespace " " and "\n", "=", and words without     *)
(*     any of the markers' characters;                                     *)
(*   - the serial programs' clocks count whole seconds.                    *)
(***************************************************************************)
EXTENDS Integers, Sequences, FiniteSets, TLC

VARIABLES
    SEQUENCE,   \* the module global SEQUENCE
    gen,        \* the frame of the pack generator being consumed
    out,        \* the packets the consumer has received from that generator
    count,      \* number of packets emitted since the module was imported
    last,       \* the last codec call made besides pack, and what it returned
    thr,        \* the frames of the threads running pack concurrently
    sent,       \* the packets the threads have emitted, in emission order
    drv,        \* the serial driver (src/wagman/wagman-driver.py): its clock and its dispatch call
    pub         \* the serial publisher (src/wagman/wagman-publisher.py): one serial connection

vars == <<SEQUENCE, gen, out, count, last, thr, sent, drv, pub>>

---------------------------------------------------------------------------
(* Bit operations on naturals below 2^31.                                  *)

RECURSIVE BitXor(_, _)
BitXor(a, b) ==
    IF a = 0 THEN b
    ELSE IF b = 0 THEN a
    ELSE (((a % 2) + (b % 2)) % 2) + (2 * BitXor(a \div 2, b \div 2))

RECURSIVE BitAnd(_, _)
BitAnd(a, b) ==
    IF a = 0 \/ b = 0 THEN 0
    ELSE ((a % 2) * (b % 2)) + (2 * BitAnd(a \div 2, b \div 2))

RECURSIVE BitOr(_, _)
BitOr(a, b) ==
    IF a = 0 THEN b
    ELSE IF b = 0 THEN a
    ELSE (IF (a % 2) + (b % 2) > 0 THEN 1 ELSE 0) + (2 * BitOr(a \div 2, b \div 2))

\* n >> k
ShiftRight(n, k) == IF k >= 31 THEN 0 ELSE n \div (2 ^ k)

\* the XOR of two bytes, tabulated once
XorTab == [a \in 0..255 |-> [b \in 0..255 |-> BitXor(a, b)] @@ <<>>] @@ <<>>

XorByte(a, b) == XorTab[a][b]

Xor16(a, b) == (XorTab[a \div 256][b \div 256] * 256) + XorTab[a % 256][b % 256]

\* 32-bit values as <<high half, low half>>
Xor32(a, b) == <<Xor16(a[1], b[1]), Xor16(a[2], b[2])>>

Shr1(a) == <<a[1] \div 2, (a[2] \div 2) + ((a[1] % 2) * 32768)>>

Shr8(a) == <<a[1] \div 256, (a[2] \div 256) + ((a[1] % 256) * 256)>>

---------------------------------------------------------------------------
(* Python slicing s[lo:hi] on a byte string; a negative index counts from  *)
(* the end, and out-of-range indices are clamped.                          *)

PyIndex(n, i) == IF i < 0 THEN (IF n + i < 0 THEN 0 ELSE n + i)
                 ELSE (IF i > n THEN n ELSE i)

PySlice(s, lo, hi) ==
    LET a == PyIndex(Len(s), lo)
        b == PyIndex(Len(s), hi)
    IN  IF a >= b THEN <<>> ELSE SubSeq(s, a + 1, b)

\* s[lo:]
PyFrom(s, lo) == PySlice(s, lo, Len(s))

---------------------------------------------------------------------------
(* The CRC functions of crcmod.predefined: 'crc-16' is the reflected       *)
(* polynomial 0xA001 with initial value 0; 'crc-32' is the reflected       *)
(* polynomial 0xEDB88320 with initial value and final XOR 0xFFFFFFFF.      *)

RECURSIVE Shift16(_, _)
Shift16(crc, k) ==
    IF k = 0 THEN crc
    ELSE Shift16(IF crc % 2 = 1 THEN BitXor(crc \div 2, 40961) ELSE crc \div 2, k - 1)

RECURSIVE Shift32(_, _)
Shift32(crc, k) ==
    IF k = 0 THEN crc
    ELSE Shift32(IF crc[2] % 2 = 1 THEN Xor32(Shr1(crc), <<60856, 33568>>)
                 ELSE Shr1(crc), k - 1)

Crc16Table == [i \in 0..255 |-> Shift16(i, 8)] @@ <<>>

Crc32Table == [i \in 0..255 |-> Shift32(<<0, i>>, 8)] @@ <<>>

Crc16Byte(crc, b) == Xor16(Crc16Table[XorByte(crc % 256, b)], crc \div 256)

Crc32Byte(crc, b) == Xor32(Crc32Table[XorByte(crc[2] % 256, b)], Shr8(crc))

\* the bytes s[lo..hi] fed to the CRC register, left half first
RECURSIVE Crc16Fold(_, _, _, _)
Crc16Fold(s, lo, hi, crc) ==
    IF lo > hi THEN crc
    ELSE IF lo = hi THEN Crc16Byte(crc, s[lo])
    ELSE LET mid == (lo + hi) \div 2
             left == Crc16Fold(s, lo, mid, crc)
         IN  IF left >= 0 THEN Crc16Fold(s, mid + 1, hi, left) ELSE left

RECURSIVE Crc32Fold(_, _, _, _)
Crc32Fold(s, lo, hi, crc) ==
    IF lo > hi THEN crc
    ELSE IF lo = hi THEN Crc32Byte(crc, s[lo])
    ELSE LET mid == (lo + hi) \div 2
             left == Crc32Fold(s, lo, mid, crc)
         IN  IF left[1] >= 0 THEN Crc32Fold(s, mid + 1, hi, left) ELSE left

crc16fun(s) == Crc16Fold(s, 1, Len(s), 0)

crc32fun(s) == Xor32(Crc32Fold(s, 1, Len(s), <<65535, 65535>>), <<65535, 65535>>)

---------------------------------------------------------------------------
(* The module's constants.                                                 *)

HEADER_LOCATIONS ==
    [f \in {"prot_ver", "flags", "len_body", "time", "msg_mj_type", "msg_mi_type",
            "snd_session", "s_uniqid", "ext_header", "resp_session", "r_uniqid",
            "snd_seq", "resp_seq", "crc-16"} |->
        CASE f = "prot_ver"     -> 0
          [] f = "flags"        -> 1
          [] f = "len_body"     -> 2
          [] f = "time"         -> 4
          [] f = "msg_mj_type"  -> 8
          [] f = "msg_mi_type"  -> 9
          [] f = "snd_session"  -> 10
          [] f = "s_uniqid"     -> 12
          [] f = "ext_header"   -> 20
          [] f = "resp_session" -> 22
          [] f = "r_uniqid"     -> 24
          [] f = "snd_seq"      -> 32
          [] f = "resp_seq"     -> 35
          [] f = "crc-16"       -> 38]

HEADER_BYTELENGTHS ==
    [f \in {"prot_ver", "flags", "len_body", "time", "msg_mj_type", "msg_mi_type",
            "snd_session", "s_uniqid", "ext_header", "resp_session", "r_uniqid",
            "snd_seq", "resp_seq", "crc-16"} |->
        CASE f = "prot_ver"     -> 1
          [] f = "flags"        -> 1
          [] f = "len_body"     -> 2
          [] f = "time"         -> 4
          [] f = "msg_mj_type"  -> 1
          [] f = "msg_mi_type"  -> 1
          [] f = "snd_session"  -> 2
          [] f = "s_uniqid"     -> 8
          [] f = "ext_header"   -> 2
          [] f = "resp_session" -> 2
          [] f = "r_uniqid"     -> 8
          [] f = "snd_seq"      -> 3
          [] f = "resp_seq"     -> 3
          [] f = "crc-16"       -> 2]

HEADER_LENGTH == 40

FOOTER_LENGTH == 4

MAX_SEQ_NUMBER == 2 ^ (8 * HEADER_BYTELENGTHS["snd_seq"])

MAX_PACKET_SIZE == 1024

VERSION == <<0, 3>>

crc16_position == HEADER_LOCATIONS["crc-16"]

---------------------------------------------------------------------------
(* Integers to bytes and back.                                             *)

Return(v) == [exc |-> "none", val |-> v]

Raise(e, m) == [exc |-> e, val |-> m]

\* chr(n): a one-character string, ValueError outside range(256)
chr(n) == IF n \in 0..255 THEN Return(<<n>>)
          ELSE Raise("ValueError", "chr() arg not in range(256)")

\* bin_pack(n, size): packed[-i] = 0xff & (n >> (i - 1)*8)
bin_pack(n, size) == [j \in 1..size |-> ShiftRight(n, (size - j) * 8) % 256]

\* bin_pack of a CRC-32 value (size is FOOTER_LENGTH = 4 at every call)
bin_pack32(w, size) ==
    [j \in 1..size |->
        LET i == size + 1 - j
        IN  CASE i = 1 -> w[2] % 256
              [] i = 2 -> w[2] \div 256
              [] i = 3 -> w[1] % 256
              [] i = 4 -> w[1] \div 256
              [] OTHER -> 0]

\* _bin_unpack(string): x = x | (ord(string[-i]) << (i - 1)*8)
RECURSIVE _bin_unpack(_)
_bin_unpack(string) ==
    IF Len(string) = 0 THEN 0
    ELSE string[Len(string)] + (256 * _bin_unpack(SubSeq(string, 1, Len(string) - 1)))

\* _bin_unpack of the footer (at most FOOTER_LENGTH bytes), as a CRC-32 value
_bin_unpack32(string) ==
    <<_bin_unpack(PySlice(string, -4, -2)), _bin_unpack(PyFrom(string, -2))>>

---------------------------------------------------------------------------
(* The header codec.                                                       *)

\* bool -> int, as Python's << does
BoolInt(f) == IF f THEN 1 ELSE 0

\* chr((flags[0] << 5) | (flags[1] << 2) | (flags[2] << 1))
_pack_flags(flags) ==
    chr(BitOr(BitOr(flags[1] * 32, flags[2] * 4), BoolInt(flags[3]) * 2))

\* ((b & 0xe0) >> 5, (b & 0x1c) >> 2, bool((b & 0x02) >> 1)) with b = ord(flagByte)
_unpack_flags(flagByte) ==
    <<ShiftRight(BitAnd(flagByte[1], 224), 5),
      ShiftRight(BitAnd(flagByte[1], 28), 2),
      ShiftRight(BitAnd(flagByte[1], 2), 1) # 0>>

\* _unpack_version with the major nibble shifted back, (v & 0xf0) >> 4
_unpack_version_shifted(version) ==
    <<ShiftRight(BitAnd(version[1], 240), 4), BitAnd(version[1], 15)>>

\* major = v & 0xf0, minor = v & 0x0f, rendered str(major) + "." + str(minor)
_unpack_version(version) ==
    <<BitAnd(version[1], 240), BitAnd(version[1], 15)>>

\* chr((major << 4) | (0xf & minor))
_pack_version(version) ==
    chr(BitOr(version[1] * 16, BitAnd(15, version[2])))

\* the fields in the order pack_header serializes them
PackOrder ==
    <<"prot_ver", "flags", "len_body", "time", "msg_mj_type", "msg_mi_type",
      "ext_header", "s_uniqid", "r_uniqid", "snd_session", "resp_session",
      "snd_seq", "resp_seq">>

\* a "header += ..." line reading the dictionary with a default, header_data.get(f, 0)
PackFieldDefaultZero(header_data, f) ==
    IF f \notin DOMAIN header_data
    THEN Return(bin_pack(0, HEADER_BYTELENGTHS[f]))
    ELSE CASE f = "prot_ver" -> _pack_version(header_data[f])
           [] f = "flags"    -> _pack_flags(header_data[f])
           [] OTHER          -> Return(bin_pack(header_data[f], HEADER_BYTELENGTHS[f]))

\* one "header += ..." line of pack_header
PackField(header_data, f) ==
    IF f \notin DOMAIN header_data
    THEN Raise("KeyError", f)
    ELSE CASE f = "prot_ver" -> _pack_version(header_data[f])
           [] f = "flags"    -> _pack_flags(header_data[f])
           [] OTHER          -> Return(bin_pack(header_data[f], HEADER_BYTELENGTHS[f]))

\* the try block of pack_header from its i-th line on, header being what is built so far
RECURSIVE PackFields(_, _, _)
PackFields(header_data, i, header) ==
    IF i > Len(PackOrder) THEN Return(header)
    ELSE LET r == PackField(header_data, PackOrder[i])
         IN  IF r.exc # "none" THEN r
             ELSE PackFields(header_data, i + 1, header \o r.val)

\* pack_header with its CRC taken over the header less its first byte
pack_header_crc_span(header_data) ==
    LET r == PackFields(header_data, 1, <<>>)
    IN  IF r.exc # "none" THEN r
        ELSE Return(r.val \o bin_pack(crc16fun(PyFrom(r.val, 1)), HEADER_BYTELENGTHS["crc-16"]))

pack_header(header_data) ==
    LET r == PackFields(header_data, 1, <<>>)
    IN  IF r.exc # "none" THEN r
        ELSE Return(r.val \o bin_pack(crc16fun(r.val), HEADER_BYTELENGTHS["crc-16"]))

\* the fields in the order _unpack_header reads them
UnpackOrder ==
    <<"prot_ver", "flags", "len_body", "time", "msg_mj_type", "msg_mi_type",
      "ext_header", "s_uniqid", "r_uniqid", "snd_session", "resp_session",
      "snd_seq", "resp_seq">>

\* the position of header_IO before the i-th read
RECURSIVE ReadPos(_)
ReadPos(i) == IF i = 1 THEN 0 ELSE ReadPos(i - 1) + HEADER_BYTELENGTHS[UnpackOrder[i - 1]]

\* header_IO.read(HEADER_BYTELENGTHS[f]) for the i-th field read
ReadField(packed_header, i) ==
    PySlice(packed_header, ReadPos(i), ReadPos(i) + HEADER_BYTELENGTHS[UnpackOrder[i]])

\* the dictionary _unpack_header builds once both checks have passed
HeaderDict(packed_header) ==
    [f \in {UnpackOrder[i] : i \in 1..Len(UnpackOrder)} |->
        LET i == CHOOSE k \in 1..Len(UnpackOrder) : UnpackOrder[k] = f
            bytes == ReadField(packed_header, i)
        IN  CASE f = "prot_ver" -> _unpack_version(bytes)
              [] f = "flags"    -> _unpack_flags(bytes)
              [] OTHER          -> _bin_unpack(bytes)]

\* the CRC comparison of _unpack_header
HeaderCrcOk(packed_header) ==
    crc16fun(PySlice(packed_header, 0, -2))
        = _bin_unpack(PySlice(packed_header, crc16_position, crc16_position + 2))

\* _unpack_header without its CRC comparison
_unpack_header_unchecked(packed_header) ==
    IF Len(packed_header) # HEADER_LENGTH
    THEN Raise("IndexError", "header length")
    ELSE Return(HeaderDict(packed_header))

_unpack_header(packed_header) ==
    IF Len(packed_header) # HEADER_LENGTH
    THEN Raise("IndexError", "header length")
    ELSE IF ~HeaderCrcOk(packed_header)
    THEN Raise("IOError", "Header CRC-16 check failed")
    ELSE Return(HeaderDict(packed_header))

get_header(packet) == _unpack_header(PySlice(packet, 0, HEADER_LENGTH))

\* the CRC comparison of unpack
BodyCrcOk(packet) ==
    crc32fun(PySlice(packet, HEADER_LENGTH, -FOOTER_LENGTH))
        = _bin_unpack32(PyFrom(packet, -FOOTER_LENGTH))

\* unpack checking the header before the body
unpack_header_first(packet) ==
    LET header == _unpack_header(PySlice(packet, 0, HEADER_LENGTH))
    IN  IF header.exc # "none" THEN header
        ELSE IF ~BodyCrcOk(packet)
        THEN Raise("IOError", "Packet body CRC-32 failed.")
        ELSE Return(<<header.val, PySlice(packet, HEADER_LENGTH, -FOOTER_LENGTH)>>)

\* unpack handing back the body without its first four bytes
unpack_strip_index(packet) ==
    IF ~BodyCrcOk(packet)
    THEN Raise("IOError", "Packet body CRC-32 failed.")
    ELSE LET header == _unpack_header(PySlice(packet, 0, HEADER_LENGTH))
         IN  IF header.exc # "none" THEN header
             ELSE Return(<<header.val, PySlice(packet, HEADER_LENGTH + 4, -FOOTER_LENGTH)>>)

unpack(packet) ==
    IF ~BodyCrcOk(packet)
    THEN Raise("IOError", "Packet body CRC-32 failed.")
    ELSE LET header == _unpack_header(PySlice(packet, 0, HEADER_LENGTH))
         IN  IF header.exc # "none" THEN header
             ELSE Return(<<header.val, PySlice(packet, HEADER_LENGTH, -FOOTER_LENGTH)>>)

---------------------------------------------------------------------------
(* pack: a generator.  Nothing of its body runs before the first next();   *)
(* each next() runs it to the following yield, to a raise or to its end.   *)

\* the increment without its wrap
NextSequenceNoWrap(seq) == seq + 1

\* SEQUENCE = (SEQUENCE + 1) % MAX_SEQ_NUMBER
NextSequence(seq) == (seq + 1) % MAX_SEQ_NUMBER

\* the test with <= for <
IsSinglePacketInclusive(size) == size <= MAX_PACKET_SIZE

\* if(message_data.tell() < MAX_PACKET_SIZE), the position being the end of the data
IsSinglePacket(size) == size < MAX_PACKET_SIZE

\* while length > MAX_PACKET_SIZE
MoreChunks(length) == length > MAX_PACKET_SIZE

\* a read one byte short
ReadChunkShort(message_data, pos) == PySlice(message_data, pos, pos + MAX_PACKET_SIZE - 1)

\* message_data.read(MAX_PACKET_SIZE) at position pos
ReadChunk(message_data, pos) == PySlice(message_data, pos, pos + MAX_PACKET_SIZE)

\* the user-supplied values updated with the automatic fields
AutoHeaderDefaultsWin(header_data, message_data, now, seq) ==
    [prot_ver     |-> VERSION,
     flags        |-> <<1, 1, TRUE>>,
     len_body     |-> Len(message_data),
     time         |-> now,
     snd_session  |-> 0,
     s_uniqid     |-> 0,
     ext_header   |-> 0,
     resp_session |-> 0,
     r_uniqid     |-> 0,
     snd_seq      |-> seq,
     resp_seq     |-> 0] @@ header_data

\* the automatic fields, updated with the user-supplied values
AutoHeader(header_data, message_data, now, seq) ==
    header_data @@
    [prot_ver     |-> VERSION,
     flags        |-> <<1, 1, TRUE>>,
     len_body     |-> Len(message_data),
     time         |-> now,
     snd_session  |-> 0,
     s_uniqid     |-> 0,
     ext_header   |-> 0,
     resp_session |-> 0,
     r_uniqid     |-> 0,
     snd_seq      |-> seq,
     resp_seq     |-> 0]

\* header + msg + msg_crc32
Packet(header, msg) == header \o msg \o bin_pack32(crc32fun(msg), FOOTER_LENGTH)

NoFrame ==
    [pc |-> "none", header_data |-> <<>>, message_data |-> <<>>, auto_header |-> <<>>,
     length |-> 0, pos |-> 0, packetNum |-> 0, exc |-> "none", seq0 |-> 0]

\* (seq0 is not a variable of pack: it records SEQUENCE as the first next() found it)

\* pack(header_data, message_data): the generator object, not yet started
NewFrame(header_data, message_data) ==
    [NoFrame EXCEPT !.pc = "created", !.header_data = header_data,
                    !.message_data = message_data]

\* what one next() does: the frame and SEQUENCE after it, and the packets yielded (0 or 1)
Step(f, seq, y) == [frame |-> f, seq |-> seq, yield |-> y]

\* the single-packet branch with the increment moved ahead of pack_header
SingleBranchCountFirst(f, seq) ==
    LET header == pack_header(f.auto_header)
    IN  IF header.exc # "none"
        THEN Step([f EXCEPT !.pc = "raised", !.exc = header.exc], NextSequence(seq), <<>>)
        ELSE Step([f EXCEPT !.pc = "single", !.pos = Len(f.message_data)],
                  NextSequence(seq),
                  <<Packet(header.val, f.message_data)>>)

\* the single-packet branch
SingleBranch(f, seq) ==
    LET header == pack_header(f.auto_header)
    IN  IF header.exc # "none"
        THEN Step([f EXCEPT !.pc = "raised", !.exc = header.exc], seq, <<>>)
        ELSE Step([f EXCEPT !.pc = "single", !.pos = Len(f.message_data)],
                  NextSequence(seq),
                  <<Packet(header.val, f.message_data)>>)

\* one fragment: the body of the while loop and of the trailing if
Fragment(f, seq, pc) ==
    LET header == pack_header(f.auto_header)
        chunk  == ReadChunk(f.message_data, f.pos)
        msg    == bin_pack(f.packetNum, 4) \o chunk
    IN  IF header.exc # "none"
        THEN Step([f EXCEPT !.pc = "raised", !.exc = header.exc], seq, <<>>)
        ELSE Step([f EXCEPT !.pc = pc, !.pos = f.pos + Len(chunk),
                            !.packetNum = IF pc = "loop" THEN f.packetNum + 1
                                          ELSE f.packetNum],
                  NextSequence(seq),
                  <<Packet(header.val, msg)>>)

\* the multi-packet branch from the test of the while loop on
MultiBranch(f, seq) ==
    IF MoreChunks(f.length) THEN Fragment(f, seq, "loop")
    ELSE IF f.length > 0 THEN Fragment(f, seq, "final")
    ELSE Step([f EXCEPT !.pc = "done"], seq, <<>>)

\* the first next(): from the top of pack to its first yield
FirstNext(f, seq, now) ==
    LET g == [f EXCEPT !.auto_header = AutoHeader(f.header_data, f.message_data, now, seq),
                       !.length = Len(f.message_data),
                       !.seq0 = seq]
    IN  IF IsSinglePacket(Len(f.message_data)) THEN SingleBranch(g, seq)
        ELSE MultiBranch(g, seq)

\* a later next(): from the yield the generator is suspended at
LaterNext(f, seq) ==
    IF f.pc = "loop"
    THEN MultiBranch([f EXCEPT !.length = f.length - MAX_PACKET_SIZE], seq)
    ELSE Step([f EXCEPT !.pc = "done"], seq, <<>>)

---------------------------------------------------------------------------
(* Bounds and inputs.                                                      *)

\* a pack call starts only while fewer packets than this were emitted in the run
MaxPackets == 3

\* the longest body whose every bit is flipped in the tamper runs
MaxFlipBody == 5

\* packets emitted before the run starts: none (a fresh import), or two short of
\* the wrap of the counter
StartCounts == {0, MAX_SEQ_NUMBER - 2}

\* the values int(time.time()) takes
Times == {1500000000, 1500000001}

\* a body of n bytes
Bytes(n) == [i \in 1..n |-> ((i * 7) + n) % 256]

Hello == <<104, 101, 108, 108, 111>>

SmallBodies == {<<>>, Hello, Bytes(MAX_PACKET_SIZE - 1)}

LargeBodies == {Bytes(MAX_PACKET_SIZE), Bytes(MAX_PACKET_SIZE + 1), Bytes(2500)}

HeaderTypes == [msg_mj_type |-> 1, msg_mi_type |-> 2]

HeaderVersion == [msg_mj_type |-> 1, msg_mi_type |-> 2, prot_ver |-> <<1, 3>>]

HeaderFull ==
    [prot_ver |-> <<0, 3>>, flags |-> <<3, 5, TRUE>>, len_body |-> 513,
     time |-> 1400000000, msg_mj_type |-> 3, msg_mi_type |-> 4,
     snd_session |-> 4660, s_uniqid |-> 16909060, ext_header |-> 22136,
     resp_session |-> 39612, r_uniqid |-> 168496141, snd_seq |-> 1118483,
     resp_seq |-> 2171171]

HeaderNoMinor == [msg_mj_type |-> 1]

HeaderSeq == [msg_mj_type |-> 1, msg_mi_type |-> 2, snd_seq |-> 7]

\* the pack calls the consumer makes
Calls ==
    ({HeaderTypes, HeaderVersion, HeaderFull, HeaderNoMinor, HeaderSeq} \X SmallBodies)
        \cup ({HeaderTypes, HeaderSeq, HeaderNoMinor} \X LargeBodies)

\* the threads that may call pack at the same time
Threads == {1, 2}

\* a thread that has not called pack
IdleThread ==
    [pc |-> "idle", path |-> "start", message_data |-> <<>>, auto_header |-> <<>>,
     length |-> 0, pos |-> 0, packetNum |-> 0, header |-> <<>>, msg |-> <<>>, tmp |-> 0]

NoCall == [op |-> "none", arg |-> <<>>, res |-> Return(<<>>)]

\* the packets emitted in the run so far
Emitted(c) == IF c >= MAX_SEQ_NUMBER - 2 THEN c - (MAX_SEQ_NUMBER - 2) ELSE c

\* the driver with no dispatch call made
NoDispatch ==
    [pc |-> "idle", elapsed |-> 0, idle |-> 0, sid |-> <<>>, lines |-> <<>>,
     rx |-> <<>>, res |-> Return(<<>>)]

\* the publisher before it has opened the serial device
NoConnection ==
    [pc |-> "closed", output |-> <<>>, incommand |-> FALSE, commandname |-> <<>>,
     session_id |-> <<>>, published |-> <<>>, rx |-> <<>>]

---------------------------------------------------------------------------
(* One consumer thread: pack generators consumed one after the other, and  *)
(* unpack applied to the packets received.                                 *)

Init ==
    /\ count \in StartCounts
    /\ SEQUENCE = IF count = 0 THEN 0 ELSE count
    /\ gen = NoFrame
    /\ out = <<>>
    /\ last = NoCall
    /\ thr = [t \in Threads |-> IdleThread]
    /\ sent = <<>>
    /\ drv = NoDispatch
    /\ pub = NoConnection

\* g = pack(header_data, message_data), the previous generator being exhausted
PackCall(header_data, message_data) ==
    /\ gen.pc \in {"none", "done", "raised"}
    /\ Emitted(count) < MaxPackets
    /\ gen' = NewFrame(header_data, message_data)
    /\ out' = <<>>
    /\ last' = NoCall
    /\ UNCHANGED <<SEQUENCE, count, thr, sent, drv, pub>>

\* the consumer takes what next(g) hands back
Advance(r) ==
    /\ gen' = r.frame
    /\ SEQUENCE' = r.seq
    /\ out' = out \o r.yield
    /\ count' = count + Len(r.yield)
    /\ last' = NoCall
    /\ UNCHANGED <<thr, sent, drv, pub>>

\* next(g)
GenNext ==
    \/ /\ gen.pc = "created"
       /\ \E now \in Times : Advance(FirstNext(gen, SEQUENCE, now))
    \/ /\ gen.pc \in {"single", "loop", "final"}
       /\ Advance(LaterNext(gen, SEQUENCE))

\* unpack(packet) on a packet received from the generator
Unpack(i) ==
    /\ last.op = "none"
    /\ i \in 1..Len(out)
    /\ last' = [op |-> "unpack", arg |-> out[i], res |-> unpack(out[i])]
    /\ UNCHANGED <<SEQUENCE, gen, out, count, thr, sent, drv, pub>>

Next ==
    \/ \E c \in Calls : PackCall(c[1], c[2])
    \/ GenNext
    \/ \E i \in 1..3 : Unpack(i)

Spec == Init /\ [][Next]_vars

---------------------------------------------------------------------------
(* Properties of pack under Spec.                                          *)

\* the body portion of a packet
BodyOf(packet) == PySlice(packet, HEADER_LENGTH, -FOOTER_LENGTH)

\* the snd_seq a packet's header carries
SndSeqOf(packet) == get_header(packet).val.snd_seq

\* the generator took the multi-packet branch and has not raised
MultiPacketCall ==
    /\ gen.pc \in {"loop", "final", "done"}
    /\ ~(Len(gen.message_data) < MAX_PACKET_SIZE)

\* the generator took the single-packet branch and has not raised
SinglePacketCall ==
    /\ gen.pc \in {"single", "done"}
    /\ Len(gen.message_data) < MAX_PACKET_SIZE

\* C1: in a multi-packet pack call whose caller supplies no snd_seq, the k-th
\* fragment (k = 0, 1, ...) carries snd_seq = (s + k) mod 2^24, s being the
\* counter when the call starts.
C1_FragmentsCarryFreshSequence ==
    (MultiPacketCall /\ "snd_seq" \notin DOMAIN gen.header_data)
        => \A k \in 1..Len(out) :
              SndSeqOf(out[k]) = (gen.seq0 + (k - 1)) % MAX_SEQ_NUMBER

\* C2: the counter is 0 at import and always equals the number of packets
\* emitted so far modulo 2^24, within [0, 2^24).
C2_CounterCountsPackets ==
    /\ SEQUENCE \in 0..(MAX_SEQ_NUMBER - 1)
    /\ SEQUENCE = count % MAX_SEQ_NUMBER
    /\ count = 0 => SEQUENCE = 0

\* a two-fragment call has carried the counter over the wrap, back to 0
C2_Witness ==
    /\ count = MAX_SEQ_NUMBER
    /\ SEQUENCE = 0
    /\ gen.pc = "done"
    /\ Len(out) = 2

\* ceil(n / MAX_PACKET_SIZE)
ChunkCount(n) == (n + MAX_PACKET_SIZE - 1) \div MAX_PACKET_SIZE

\* the chunk a fragment packet carries after its 4-byte index
ChunkOf(packet) == PyFrom(BodyOf(packet), 4)

\* the chunks of the first k packets received, concatenated
RECURSIVE Chunks(_)
Chunks(k) == IF k = 0 THEN <<>> ELSE Chunks(k - 1) \o ChunkOf(out[k])

\* C4: a body of L >= 1024 bytes is emitted as ceil(L/1024) packets in order,
\* with indices 0, 1, ..., n-1, chunks of 1024 bytes except the last of
\* L - 1024*(n-1) bytes (1..1024), and the chunks concatenated are the body.
C4_Fragmentation ==
    MultiPacketCall =>
        LET L == Len(gen.message_data)
            n == ChunkCount(L)
        IN  /\ Len(out) <= n
            /\ \A k \in 1..Len(out) :
                  /\ PySlice(BodyOf(out[k]), 0, 4) = bin_pack(k - 1, 4)
                  /\ _bin_unpack(PySlice(BodyOf(out[k]), 0, 4)) = k - 1
                  /\ k < n => Len(ChunkOf(out[k])) = MAX_PACKET_SIZE
                  /\ k = n => /\ Len(ChunkOf(out[k])) = L - (MAX_PACKET_SIZE * (n - 1))
                              /\ Len(ChunkOf(out[k])) \in 1..MAX_PACKET_SIZE
            /\ gen.pc = "done" =>
                  /\ Len(out) = n
                  /\ Chunks(n) = gen.message_data

\* the 2500-byte body has gone out as chunks of 1024, 1024 and 452 bytes
C4_Witness ==
    /\ gen.pc = "done"
    /\ Len(gen.message_data) = 2500
    /\ Len(out) = 3
    /\ Len(ChunkOf(out[1])) = 1024
    /\ Len(ChunkOf(out[2])) = 1024
    /\ Len(ChunkOf(out[3])) = 452

\* C5: a body of L < 1024 bytes is emitted as one packet of 40 + L + 4 bytes:
\* a header, the raw body, the CRC-32 of the body; a body of exactly 1024
\* bytes goes out as one fragment with index 0.
C5_SinglePacket ==
    /\ SinglePacketCall =>
          LET L == Len(gen.message_data)
          IN  /\ Len(out) = 1
              /\ Len(out[1]) = HEADER_LENGTH + L + FOOTER_LENGTH
              /\ HeaderCrcOk(PySlice(out[1], 0, HEADER_LENGTH))
              /\ PySlice(out[1], HEADER_LENGTH, HEADER_LENGTH + L) = gen.message_data
              /\ _bin_unpack32(PyFrom(out[1], -FOOTER_LENGTH)) = crc32fun(gen.message_data)
    /\ (gen.pc = "done" /\ Len(gen.message_data) = MAX_PACKET_SIZE) =>
          /\ Len(out) = 1
          /\ BodyOf(out[1]) = bin_pack(0, 4) \o gen.message_data

\* pack(..., "hello") has yielded its one packet of 49 bytes
C5_Witness ==
    /\ gen.pc = "done"
    /\ gen.message_data = Hello
    /\ Len(out) = 1
    /\ Len(out[1]) = 49

\* C8: unpack of the single packet of a call with a body under 1024 bytes returns
\* the body unchanged and a header in which every field the caller supplied
\* has the supplied value.
C8_RoundTrip ==
    (/\ last.op = "unpack"
     /\ SinglePacketCall
     /\ {"msg_mj_type", "msg_mi_type"} \subseteq DOMAIN gen.header_data)
        => /\ last.res.exc = "none"
           /\ last.res.val[2] = gen.message_data
           /\ \A f \in DOMAIN gen.header_data :
                 last.res.val[1][f] = gen.header_data[f]

\* C15: every fragment pack emits passes unpack on its own, and the body unpack
\* returns for the k-th fragment is the 4-byte big-endian index k followed by the
\* k-th chunk of the message, which is what the CRC-32 footer covers; the index
\* is not stripped and no fragments are merged.
C15_FragmentUnpacksWithIndex ==
    (last.op = "unpack" /\ MultiPacketCall) =>
        \A k \in 1..Len(out) :
            last.arg = out[k] =>
               /\ last.res.exc = "none"
               /\ last.res.val[2]
                     = bin_pack(k - 1, 4)
                         \o PySlice(gen.message_data, (k - 1) * MAX_PACKET_SIZE,
                                    k * MAX_PACKET_SIZE)
               /\ crc32fun(last.res.val[2]) = _bin_unpack32(PyFrom(out[k], -FOOTER_LENGTH))

\* the third fragment of the 2500-byte body was unpacked: index 2 and 452 bytes
C15_Witness ==
    /\ last.op = "unpack"
    /\ Len(gen.message_data) = 2500
    /\ Len(out) = 3
    /\ last.arg = out[3]
    /\ last.res.exc = "none"
    /\ PySlice(last.res.val[2], 0, 4) = <<0, 0, 0, 2>>
    /\ Len(last.res.val[2]) = 456

\* C19: what the caller supplies replaces the automatic value of the same
\* field, snd_seq and len_body included: every packet of the call carries the
\* caller's values (prot_ver is compared as the byte it packs to), and SEQUENCE
\* still advances by one for each packet emitted.
C19_CallerOverridesWin ==
    /\ \A k \in 1..Len(out) :
          /\ \A f \in (DOMAIN gen.header_data) \ {"prot_ver"} :
                get_header(out[k]).val[f] = gen.header_data[f]
          /\ "prot_ver" \in DOMAIN gen.header_data
                => PySlice(out[k], 0, 1) = _pack_version(gen.header_data.prot_ver).val
    /\ Len(out) >= 1 => SEQUENCE = (gen.seq0 + Len(out)) % MAX_SEQ_NUMBER

\* the three fragments of a call supplying snd_seq = 7 all carry 7, and SEQUENCE
\* has gone from 0 to 3
C19_Witness ==
    /\ gen.pc = "done"
    /\ gen.header_data = HeaderSeq
    /\ Len(out) = 3
    /\ SndSeqOf(out[1]) = 7
    /\ SndSeqOf(out[3]) = 7
    /\ gen.seq0 = 0
    /\ SEQUENCE = 3

---------------------------------------------------------------------------
(* The codec's functions called directly, on inputs of the caller's choice. *)

\* the longest buffer handed to unpack
MaxBuffer == 46

Zeros(n) == [i \in 1..n |-> 0]

Ramp(n) == [i \in 1..n |-> i]

\* the packet pack({msg_mj_type: 1, msg_mi_type: 2}, "hello") yields first after import
HelloPacket == Packet(pack_header(AutoHeader(HeaderTypes, Hello, 1500000000, 0)).val, Hello)

Buffers ==
    {Zeros(n) : n \in 0..MaxBuffer} \cup {Ramp(n) : n \in 1..MaxBuffer}
        \cup {PySlice(HelloPacket, 0, n) : n \in 1..Len(HelloPacket)}

\* header dictionaries holding every required field
FullHeaders ==
    [prot_ver     : {<<0, 3>>, <<1, 3>>, <<15, 15>>},
     flags        : {<<1, 1, TRUE>>, <<7, 7, FALSE>>, <<9, 0, FALSE>>},
     len_body     : {0, 70000},
     time         : {1500000000},
     msg_mj_type  : {1, 255},
     msg_mi_type  : {2},
     snd_session  : {0, 4660},
     s_uniqid     : {16909060},
     ext_header   : {0, 22136},
     resp_session : {0, 39612},
     r_uniqid     : {0, 168496141},
     snd_seq      : {0, 1118483, MAX_SEQ_NUMBER - 1},
     resp_seq     : {2171171}]

\* header dictionaries with one required field absent
PartialHeaders ==
    {[f \in (DOMAIN HeaderFull) \ {g} |-> HeaderFull[f]] : g \in DOMAIN HeaderFull}

HeaderDicts == FullHeaders \cup PartialHeaders \cup {HeaderFull}

\* unpack(buffer), the first call of the run
UnpackBuffer(buffer) ==
    /\ last.op = "none"
    /\ last' = [op |-> "unpack", arg |-> buffer, res |-> unpack(buffer)]
    /\ UNCHANGED <<SEQUENCE, gen, out, count, thr, sent, drv, pub>>

\* pack_header(header_data), the first call of the run
PackHeaderCall(header_data) ==
    /\ last.op = "none"
    /\ last' = [op |-> "pack_header", arg |-> header_data, res |-> pack_header(header_data)]
    /\ UNCHANGED <<SEQUENCE, gen, out, count, thr, sent, drv, pub>>

\* _unpack_header(header) on the header pack_header has just returned
UnpackHeaderCall ==
    /\ last.op = "pack_header"
    /\ last.res.exc = "none"
    /\ last' = [op |-> "_unpack_header", arg |-> last.res.val,
                res |-> _unpack_header(last.res.val)]
    /\ UNCHANGED <<SEQUENCE, gen, out, count, thr, sent, drv, pub>>

NextCodec ==
    \/ \E b \in Buffers : UnpackBuffer(b)
    \/ \E h \in HeaderDicts : PackHeaderCall(h)
    \/ UnpackHeaderCall

SpecCodec == Init /\ [][NextCodec]_vars

\* C6: unpack of a buffer shorter than 44 bytes returns no result and fails as a
\* length error, not as a CRC error (the IndexError of the header length check
\* is taken for a length error here; IOError is what both CRC checks raise).
C6_ShortBufferRejected ==
    (last.op = "unpack" /\ Len(last.arg) < HEADER_LENGTH + FOOTER_LENGTH)
        => last.res.exc \notin {"none", "IOError"}

\* the byte a version or a flags value packs to
PackedByte(f, value) == IF f = "prot_ver" THEN _pack_version(value).val
                        ELSE _pack_flags(value).val

\* C9: pack_header places every field at the offset and width HEADER_LOCATIONS and
\* HEADER_BYTELENGTHS declare, big-endian, and the CRC-16 at bytes 38-39.
C9_FieldsAtDeclaredOffsets ==
    (last.op = "pack_header" /\ last.res.exc = "none")
        => /\ \A f \in DOMAIN last.arg :
                 PySlice(last.res.val, HEADER_LOCATIONS[f],
                         HEADER_LOCATIONS[f] + HEADER_BYTELENGTHS[f])
                   = IF f \in {"prot_ver", "flags"} THEN PackedByte(f, last.arg[f])
                     ELSE bin_pack(last.arg[f], HEADER_BYTELENGTHS[f])
           /\ PySlice(last.res.val, HEADER_LOCATIONS["crc-16"], HEADER_LENGTH)
                 = bin_pack(crc16fun(PySlice(last.res.val, 0, HEADER_LOCATIONS["crc-16"])), 2)

\* C10: every header pack_header returns is 40 bytes long, ends with the CRC-16 of
\* its first 38 bytes, and is accepted by _unpack_header.
C10_HeaderWellFormed ==
    /\ (last.op = "pack_header" /\ last.res.exc = "none")
          => /\ Len(last.res.val) = 40
             /\ _bin_unpack(PySlice(last.res.val, 38, 40))
                   = crc16fun(PySlice(last.res.val, 0, 38))
    /\ last.op = "_unpack_header" => last.res.exc = "none"

\* a header of non-zero fields, one of them wider than its slot, has been
\* encoded and decoded
C10_Witness ==
    /\ last.op = "_unpack_header"
    /\ Len(last.arg) = 40
    /\ last.res.exc = "none"
    /\ last.res.val.snd_seq = MAX_SEQ_NUMBER - 1
    /\ last.res.val.len_body = 70000 % 65536
    /\ last.res.val.r_uniqid = 168496141

---------------------------------------------------------------------------
(* Tampering: one bit of a packet pack has produced is flipped in transit   *)
(* and the packet is handed to unpack.                                      *)

TamperCalls ==
    ({HeaderTypes, HeaderFull} \X {<<>>, Hello})
        \cup {<<HeaderTypes, Bytes(MAX_PACKET_SIZE + 1)>>}

\* bit b of the packet inverted (bit 0 is the lowest bit of the first byte)
FlipBit(packet, b) ==
    [packet EXCEPT ![(b \div 8) + 1] = XorByte(@, 2 ^ (b % 8))]

\* offsets of the bytes of the body portion
BodyBytes(packet) == HEADER_LENGTH .. (Len(packet) - FOOTER_LENGTH - 1)

\* offsets of the header bytes the CRC-16 covers
HeaderBytes == 0 .. (crc16_position - 1)

\* the bytes whose bits are flipped: the covered header bytes and the body bytes
\* (of a body longer than 2 * MaxFlipBody, its first and last MaxFlipBody bytes)
FlipBytes(packet) ==
    HeaderBytes \cup
    {j \in BodyBytes(packet) :
        \/ j < HEADER_LENGTH + MaxFlipBody
        \/ j >= Len(packet) - FOOTER_LENGTH - MaxFlipBody}

InitTamper == Init /\ count = 0

\* the one pack call of a tamper run
PackCallOnce(header_data, message_data) ==
    /\ gen.pc = "none"
    /\ PackCall(header_data, message_data)

\* unpack of the i-th packet received with its bit b flipped
UnpackFlipped(i, b) ==
    /\ last.op = "none"
    /\ gen.pc = "done"
    /\ i \in 1..Len(out)
    /\ (b \div 8) \in FlipBytes(out[i])
    /\ last' = [op |-> "unpack_flipped", arg |-> <<i, b>>,
                res |-> unpack(FlipBit(out[i], b))]
    /\ UNCHANGED <<SEQUENCE, gen, out, count, thr, sent, drv, pub>>

NextTamper ==
    \/ \E c \in TamperCalls : PackCallOnce(c[1], c[2])
    \/ GenNext
    \/ \E i \in 1..2 : \E b \in 0..(8 * (HEADER_LENGTH + 4 + MAX_PACKET_SIZE) - 1) :
          UnpackFlipped(i, b)

SpecTamper == InitTamper /\ [][NextTamper]_vars

\* C7: a packet from pack with one bit of its body flipped fails unpack with the
\* body CRC-32 error; with one bit of its first 38 header bytes flipped, with the
\* header CRC-16 error; no result is returned.
C7_TamperDetected ==
    last.op = "unpack_flipped" =>
        LET packet == out[last.arg[1]]
            byte   == last.arg[2] \div 8
        IN  /\ last.res.exc # "none"
            /\ byte \in BodyBytes(packet)
                  => last.res = Raise("IOError", "Packet body CRC-32 failed.")
            /\ byte \in HeaderBytes
                  => last.res = Raise("IOError", "Header CRC-16 check failed")

\* a bit of the last body byte of a 1024-byte fragment was flipped and unpack
\* raised the body error
C7_Witness ==
    /\ last.op = "unpack_flipped"
    /\ Len(out[last.arg[1]]) = HEADER_LENGTH + 4 + MAX_PACKET_SIZE + FOOTER_LENGTH
    /\ last.arg[2] \div 8 = HEADER_LENGTH + 4 + MAX_PACKET_SIZE - 1
    /\ last.res = Raise("IOError", "Packet body CRC-32 failed.")

---------------------------------------------------------------------------
(* Threads calling pack at the same time, each consuming its own           *)
(* generator.  The interpreter may switch threads between any two          *)
(* bytecodes: the read of SEQUENCE into auto_header, the read of SEQUENCE  *)
(* for the increment and the store of the incremented value are separate   *)
(* steps.                                                                  *)

ThreadCalls == {HeaderTypes} \X {<<>>, Hello, Bytes(MAX_PACKET_SIZE + 1)}

\* the thread's generator runs from the top of pack through auto_header.update
T_Call(t, header_data, message_data) ==
    /\ thr[t].pc = "idle"
    /\ \E now \in Times :
          thr' = [thr EXCEPT ![t] =
                    [@ EXCEPT !.pc = "test",
                              !.message_data = message_data,
                              !.auto_header = AutoHeader(header_data, message_data, now, SEQUENCE),
                              !.length = Len(message_data)]]
    /\ UNCHANGED <<SEQUENCE, gen, out, count, last, sent, drv, pub>>

\* the thread's frame with the header and msg of its next packet
Prepared(f, path, msg) ==
    LET header == pack_header(f.auto_header)
    IN  IF header.exc # "none" THEN [f EXCEPT !.pc = "raised"]
        ELSE [f EXCEPT !.pc = "load", !.path = path, !.header = header.val,
                       !.msg = msg, !.pos = f.pos + Len(msg)]

\* the branch or loop test, pack_header and the building of msg
T_Prepare(t) ==
    /\ thr[t].pc = "test"
    /\ LET f == thr[t]
           chunk == ReadChunk(f.message_data, f.pos)
       IN  thr' = [thr EXCEPT ![t] =
                IF f.path = "start" /\ IsSinglePacket(f.length)
                THEN Prepared(f, "single", f.message_data)
                ELSE IF MoreChunks(f.length)
                THEN [Prepared(f, "loop", bin_pack(f.packetNum, 4) \o chunk)
                         EXCEPT !.pos = f.pos + Len(chunk)]
                ELSE IF f.length > 0
                THEN [Prepared(f, "final", bin_pack(f.packetNum, 4) \o chunk)
                         EXCEPT !.pos = f.pos + Len(chunk)]
                ELSE [f EXCEPT !.pc = "done"]]
    /\ UNCHANGED <<SEQUENCE, gen, out, count, last, sent, drv, pub>>

\* SEQUENCE = (SEQUENCE + 1) % MAX_SEQ_NUMBER: the load of SEQUENCE
T_Load(t) ==
    /\ thr[t].pc = "load"
    /\ thr' = [thr EXCEPT ![t] = [@ EXCEPT !.pc = "store", !.tmp = SEQUENCE]]
    /\ UNCHANGED <<SEQUENCE, gen, out, count, last, sent, drv, pub>>

\* SEQUENCE = (SEQUENCE + 1) % MAX_SEQ_NUMBER: the store (and packetNum += 1 in the loop)
T_Store(t) ==
    /\ thr[t].pc = "store"
    /\ SEQUENCE' = NextSequence(thr[t].tmp)
    /\ thr' = [thr EXCEPT ![t] =
                 [@ EXCEPT !.pc = "yield",
                           !.packetNum = IF thr[t].path = "loop" THEN @ + 1 ELSE @]]
    /\ UNCHANGED <<gen, out, count, last, sent, drv, pub>>

\* yield header + msg + msg_crc32, and on from the yield to the next test
T_Yield(t) ==
    /\ thr[t].pc = "yield"
    /\ sent' = Append(sent, [thread |-> t, packet |-> Packet(thr[t].header, thr[t].msg)])
    /\ count' = count + 1
    /\ thr' = [thr EXCEPT ![t] =
                 IF thr[t].path = "loop"
                 THEN [@ EXCEPT !.pc = "test", !.length = @ - MAX_PACKET_SIZE]
                 ELSE [@ EXCEPT !.pc = "done"]]
    /\ UNCHANGED <<SEQUENCE, gen, out, last, drv, pub>>

NextThreads ==
    \E t \in Threads :
        \/ \E c \in ThreadCalls : T_Call(t, c[1], c[2])
        \/ T_Prepare(t)
        \/ T_Load(t)
        \/ T_Store(t)
        \/ T_Yield(t)

SpecThreads == InitTamper /\ [][NextThreads]_vars

\* the packets that have been given a sequence value: those emitted, and the
\* one each thread has packed a header for and not yet yielded
Stamped ==
    {<<"sent", i>> : i \in 1..Len(sent)}
        \cup {<<"thr", t>> : t \in {u \in Threads : thr[u].pc \in {"load", "store", "yield"}}}

StampOf(x) == IF x[1] = "sent" THEN SndSeqOf(sent[x[2]].packet)
              ELSE thr[x[2]].auto_header.snd_seq

\* C3: with pack calls running concurrently no two packets are given the same
\* sequence value, and no increment of the counter is lost.
C3_NoDuplicateNoLostIncrement ==
    /\ \A x, y \in Stamped : x # y => StampOf(x) # StampOf(y)
    /\ (\A t \in Threads : thr[t].pc \in {"idle", "done", "raised"})
          => SEQUENCE = count % MAX_SEQ_NUMBER

---------------------------------------------------------------------------
(* Required fields absent from the dictionary handed to pack_header, and    *)
(* from the one handed to pack.                                             *)

\* the fields pack_header reads
RequiredFields == {PackOrder[i] : i \in 1..Len(PackOrder)}

\* the entries of h for the fields in s
Restrict(h, s) == [f \in s |-> h[f]]

\* every dictionary made of some of HeaderFull's entries
SubHeaders == {Restrict(HeaderFull, s) : s \in SUBSET (DOMAIN HeaderFull)}

HeaderNoMajor == [msg_mi_type |-> 2]

HeaderNoTypes == Restrict(HeaderFull, (DOMAIN HeaderFull) \ {"msg_mj_type", "msg_mi_type"})

\* pack calls with a type field absent, and one with both present
MissingCalls ==
    {HeaderNoMinor, HeaderNoMajor, HeaderNoTypes, HeaderTypes}
        \X {Hello, Bytes(MAX_PACKET_SIZE + 1)}

\* pack_header(header_data) called before any pack call
PackHeaderFirst(header_data) ==
    /\ gen.pc = "none"
    /\ PackHeaderCall(header_data)

\* pack(header_data, message_data) called with no pack_header call before it
PackCallFresh(header_data, message_data) ==
    /\ last.op = "none"
    /\ PackCall(header_data, message_data)

NextMissing ==
    \/ \E h \in SubHeaders : PackHeaderFirst(h)
    \/ \E c \in MissingCalls : PackCallFresh(c[1], c[2])
    \/ GenNext

SpecMissing == InitTamper /\ [][NextMissing]_vars

\* the generator has run its first next()
Started == gen.pc \notin {"none", "created"}

\* C11: pack_header raises KeyError naming an absent field whenever a required
\* field is absent, and returns no header then; pack raises the same way when
\* the caller supplies no msg_mj_type or no msg_mi_type.
C11_MissingFieldRaises ==
    /\ last.op = "pack_header" =>
          LET absent == RequiredFields \ DOMAIN last.arg
          IN  /\ absent # {} => /\ last.res.exc = "KeyError"
                                /\ last.res.val \in absent
              /\ absent = {} => last.res.exc = "none"
    /\ Started =>
          LET absent == {"msg_mj_type", "msg_mi_type"} \ DOMAIN gen.header_data
          IN  /\ absent # {} => /\ gen.pc = "raised"
                                /\ gen.exc = "KeyError"
                                /\ pack_header(gen.auto_header).val \in absent
                                /\ out = <<>>
              /\ absent = {} => gen.pc # "raised"

\* pack_header was handed every field but the last one it reads, and raised
\* KeyError for it
C11_Witness ==
    /\ last.op = "pack_header"
    /\ DOMAIN last.arg = RequiredFields \ {"resp_seq"}
    /\ last.res = Raise("KeyError", "resp_seq")

---------------------------------------------------------------------------
(* Bodies up to and beyond what the two bytes of len_body can count.        *)

\* the first length bin_pack(len, HEADER_BYTELENGTHS["len_body"]) cannot hold
LenBodyLimit == 2 ^ (8 * HEADER_BYTELENGTHS["len_body"])

LongCalls ==
    {HeaderTypes} \X {Hello, Bytes(2500), Bytes(LenBodyLimit - 1), Bytes(LenBodyLimit + 5)}

NextLong ==
    \/ \E c \in LongCalls : PackCallOnce(c[1], c[2])
    \/ GenNext

SpecLong == InitTamper /\ [][NextLong]_vars

\* the len_body a packet's header carries
LenBodyOf(packet) == get_header(packet).val.len_body

\* C12: the len_body decoded from every packet pack emits, single packet or
\* fragment, is the length of the whole body handed to pack, whatever that
\* length (the caller supplying no len_body of their own).
C12_LenBodyIsTotalLength ==
    "len_body" \notin DOMAIN gen.header_data
        => \A k \in 1..Len(out) : LenBodyOf(out[k]) = Len(gen.message_data)

---------------------------------------------------------------------------
(* The flags byte and the version byte: each encoded, then decoded.         *)

\* the largest priority handed to _pack_flags (the field holds 0..7)
MaxPriority == 9

FlagTuples == (0..MaxPriority) \X (0..MaxPriority) \X BOOLEAN

\* the versions "major.minor" whose two numbers fit a nibble each
VersionPairs == (0..15) \X (0..15)

\* _pack_flags(flags), the first call of the run
PackFlagsCall(flags) ==
    /\ last.op = "none"
    /\ last' = [op |-> "_pack_flags", arg |-> flags, res |-> _pack_flags(flags)]
    /\ UNCHANGED <<SEQUENCE, gen, out, count, thr, sent, drv, pub>>

\* _unpack_flags(flagByte) on the byte _pack_flags has just returned
UnpackFlagsCall ==
    /\ last.op = "_pack_flags"
    /\ last.res.exc = "none"
    /\ last' = [op |-> "_unpack_flags", arg |-> [flags |-> last.arg, byte |-> last.res.val],
                res |-> Return(_unpack_flags(last.res.val))]
    /\ UNCHANGED <<SEQUENCE, gen, out, count, thr, sent, drv, pub>>

\* _pack_version(version), the first call of the run
PackVersionCall(version) ==
    /\ last.op = "none"
    /\ last' = [op |-> "_pack_version", arg |-> version, res |-> _pack_version(version)]
    /\ UNCHANGED <<SEQUENCE, gen, out, count, thr, sent, drv, pub>>

\* _unpack_version(version) on the byte _pack_version has just returned
UnpackVersionCall ==
    /\ last.op = "_pack_version"
    /\ last.res.exc = "none"
    /\ last' = [op |-> "_unpack_version",
                arg |-> [version |-> last.arg, byte |-> last.res.val],
                res |-> Return(_unpack_version(last.res.val))]
    /\ UNCHANGED <<SEQUENCE, gen, out, count, thr, sent, drv, pub>>

NextFields ==
    \/ \E flags \in FlagTuples : PackFlagsCall(flags)
    \/ UnpackFlagsCall
    \/ \E version \in VersionPairs : PackVersionCall(version)
    \/ UnpackVersionCall

SpecFields == InitTamper /\ [][NextFields]_vars

\* C13: _pack_flags packs (a, b, f) with a, b in 0..7 to one byte that
\* _unpack_flags decodes to (a, b, f); a priority out of that range is cut to
\* its low 3 bits: one byte is still returned, nothing is raised, and the
\* other two flags decode unaltered ((9, 0, False) decodes to (1, 0, False)).
C13_FlagsRoundTripAndTruncate ==
    /\ last.op = "_pack_flags" =>
          /\ last.res.exc = "none"
          /\ Len(last.res.val) = 1
          /\ _unpack_flags(last.res.val)
                = <<last.arg[1] % 8, last.arg[2] % 8, last.arg[3]>>
    /\ last.op = "_unpack_flags" =>
          last.res.val = <<last.arg.flags[1] % 8, last.arg.flags[2] % 8, last.arg.flags[3]>>

\* C14: _unpack_version returns major = byte & 0xF0 (not shifted) and
\* minor = byte & 0x0F: a version "major.minor" with both numbers in 0..15
\* comes back unchanged exactly when major is 0, and with 16 times its major
\* when major is in 1..15.
C14_VersionRoundTrip ==
    last.op = "_unpack_version" =>
        LET version == last.arg.version
            byte    == last.arg.byte[1]
        IN  /\ last.res.val = <<byte - (byte % 16), byte % 16>>
            /\ (last.res.val = version) <=> (version[1] = 0)
            /\ version[1] \in 1..15 => last.res.val = <<16 * version[1], version[2]>>

\* "1.3" was encoded and came back as "16.3"
C14_Witness ==
    /\ last.op = "_unpack_version"
    /\ last.arg.version = <<1, 3>>
    /\ last.arg.byte = <<19>>
    /\ last.res.val = <<16, 3>>

---------------------------------------------------------------------------
(* unpack and get_header called between the steps of pack generators, on    *)
(* packets as received and on damaged ones.                                 *)

InterleaveCalls == {HeaderTypes} \X {Hello, Bytes(MAX_PACKET_SIZE + 1)}

\* a packet as the receiver may get it: intact, with a header bit flipped, with
\* a bit after the header flipped, cut short of a whole header
Received(packet) ==
    <<packet, FlipBit(packet, 0), FlipBit(packet, 8 * HEADER_LENGTH),
      PySlice(packet, 0, HEADER_LENGTH - 1)>>

\* unpack(buffer) incrementing SEQUENCE as pack does
UnpackAnyCounting(i, d) ==
    /\ last.op = "none"
    /\ i \in 1..Len(out)
    /\ last' = [op |-> "unpack", arg |-> Received(out[i])[d],
                res |-> unpack(Received(out[i])[d])]
    /\ SEQUENCE' = NextSequence(SEQUENCE)
    /\ UNCHANGED <<gen, out, count, thr, sent, drv, pub>>

\* unpack(buffer), the buffer being the i-th packet received in its d-th condition
UnpackAny(i, d) ==
    /\ last.op = "none"
    /\ i \in 1..Len(out)
    /\ last' = [op |-> "unpack", arg |-> Received(out[i])[d],
                res |-> unpack(Received(out[i])[d])]
    /\ UNCHANGED <<SEQUENCE, gen, out, count, thr, sent, drv, pub>>

\* get_header(buffer)
GetHeaderAny(i, d) ==
    /\ last.op = "none"
    /\ i \in 1..Len(out)
    /\ last' = [op |-> "get_header", arg |-> Received(out[i])[d],
                res |-> get_header(Received(out[i])[d])]
    /\ UNCHANGED <<SEQUENCE, gen, out, count, thr, sent, drv, pub>>

NextInterleave ==
    \/ \E c \in InterleaveCalls : PackCall(c[1], c[2])
    \/ GenNext
    \/ \E i \in 1..2, d \in 1..4 : UnpackAny(i, d)
    \/ \E i \in 1..2, d \in 1..4 : GetHeaderAny(i, d)

SpecInterleave == InitTamper /\ [][NextInterleave]_vars

\* C16: a call of unpack or get_header, returning or raising, leaves SEQUENCE
\* and the rest of the module's state as it found them, so with such calls made
\* between the steps of pack the counter still is the number of packets
\* emitted and a generator still finds the counter where its previous step
\* left it.
C16_UnpackLeavesStateAlone ==
    /\ [][last'.op \in {"unpack", "get_header"}
            => (SEQUENCE' = SEQUENCE /\ gen' = gen /\ out' = out /\ count' = count)]_vars
    /\ [](SEQUENCE = count % MAX_SEQ_NUMBER)
    /\ [](Started => SEQUENCE = (gen.seq0 + Len(out)) % MAX_SEQ_NUMBER)

\* unpack has raised on a damaged first fragment while the generator of a
\* two-fragment call is suspended after it
C16_Witness ==
    /\ last.op = "unpack"
    /\ last.res.exc = "IOError"
    /\ gen.pc = "loop"
    /\ Len(out) = 1
    /\ SEQUENCE = 1

---------------------------------------------------------------------------
(* The order of unpack's checks, on buffers failing one, two or none.       *)

\* HelloPacket with a header bit flipped, with a body bit flipped, with both,
\* and with a footer bit flipped
DamagedPackets ==
    {FlipBit(HelloPacket, 0),
     FlipBit(HelloPacket, 8 * HEADER_LENGTH),
     FlipBit(FlipBit(HelloPacket, 0), 8 * HEADER_LENGTH),
     FlipBit(HelloPacket, 8 * (Len(HelloPacket) - 1)),
     FlipBit(FlipBit(HelloPacket, 8 * crc16_position), 8 * (Len(HelloPacket) - 1))}

NextOrder == \E b \in Buffers \cup DamagedPackets : UnpackBuffer(b)

SpecOrder == Init /\ [][NextOrder]_vars

\* C17: unpack compares the body CRC-32 first and raises the body error when it
\* fails, whatever the header is like; the header's length and CRC-16 are
\* looked at only when the body check has passed; a (header, body) pair comes
\* back only when all three checks pass, and nothing of the packet otherwise.
C17_ValidationOrder ==
    last.op = "unpack" =>
        LET packet == last.arg
            body   == PySlice(packet, HEADER_LENGTH, -FOOTER_LENGTH)
            header == PySlice(packet, 0, HEADER_LENGTH)
            bodyOk == crc32fun(body) = _bin_unpack32(PyFrom(packet, -FOOTER_LENGTH))
            lenOk  == Len(header) = HEADER_LENGTH
            crcOk  == crc16fun(SubSeq(header, 1, 38)) = _bin_unpack(SubSeq(header, 39, 40))
        IN  /\ ~bodyOk => last.res = Raise("IOError", "Packet body CRC-32 failed.")
            /\ (bodyOk /\ ~lenOk) => last.res.exc = "IndexError"
            /\ (bodyOk /\ lenOk /\ ~crcOk)
                  => last.res = Raise("IOError", "Header CRC-16 check failed")
            /\ (bodyOk /\ lenOk /\ crcOk)
                  => last.res = Return(<<HeaderDict(header), body>>)

\* a packet with a bit flipped in its header and one in its body was handed to
\* unpack, which raised the body error
C17_Witness ==
    /\ last.op = "unpack"
    /\ last.arg = FlipBit(FlipBit(HelloPacket, 0), 8 * HEADER_LENGTH)
    /\ ~HeaderCrcOk(PySlice(last.arg, 0, HEADER_LENGTH))
    /\ last.res = Raise("IOError", "Packet body CRC-32 failed.")

---------------------------------------------------------------------------
(* pack calls that fail for a missing field, followed by calls that succeed. *)

RetryCalls == {HeaderNoMinor, HeaderTypes} \X {Hello, Bytes(MAX_PACKET_SIZE + 1)}

\* g = pack(header_data, message_data); the frame also remembers how the previous
\* generator ended and the SEQUENCE it had found (after is not a variable of pack)
PackCallAgain(header_data, message_data) ==
    /\ gen.pc \in {"none", "done", "raised"}
    /\ Emitted(count) < MaxPackets
    /\ gen' = [after |-> [pc |-> gen.pc, seq0 |-> gen.seq0]]
                 @@ NewFrame(header_data, message_data)
    /\ out' = <<>>
    /\ last' = NoCall
    /\ UNCHANGED <<SEQUENCE, count, thr, sent, drv, pub>>

NextRetry ==
    \/ \E c \in RetryCalls : PackCallAgain(c[1], c[2])
    \/ GenNext

SpecRetry == Init /\ [][NextRetry]_vars

\* C18: a pack call that fails for a missing header field, on either branch,
\* has emitted no packet and has left SEQUENCE as it found it; the first packet
\* of the next call that succeeds carries the value the failed call had found.
C18_FailedCallConsumesNothing ==
    /\ gen.pc = "raised" =>
          /\ out = <<>>
          /\ SEQUENCE = gen.seq0
          /\ SEQUENCE = count % MAX_SEQ_NUMBER
    /\ (Started /\ gen.pc # "raised" /\ gen.after.pc = "raised") =>
          /\ Len(out) >= 1
          /\ SndSeqOf(out[1]) = gen.after.seq0

\* a fragmented call failed with SEQUENCE at 2^24 - 1, and the call after it
\* has emitted a packet stamped 2^24 - 1
C18_Witness ==
    /\ Started
    /\ gen.after.pc = "raised"
    /\ gen.after.seq0 = MAX_SEQ_NUMBER - 1
    /\ gen.pc = "done"
    /\ Len(out) = 1
    /\ SndSeqOf(out[1]) = MAX_SEQ_NUMBER - 1
    /\ SEQUENCE = 0

---------------------------------------------------------------------------
(* Patching a packed header in place: set_header_field, write_header_crc.   *)

\* what a call on a bytearray leaves: the outcome, and the bytearray after it
Mutated(r, header_bytearray) == [exc |-> r.exc, val |-> r.val, header |-> header_bytearray]

set_header_field(header_bytearray, field, value) ==
    IF field \notin DOMAIN HEADER_LOCATIONS
    THEN Mutated(Raise("KeyError", field), header_bytearray)
    ELSE IF Len(value) # HEADER_BYTELENGTHS[field]
    THEN Mutated(Raise("ValueError", "data length"), header_bytearray)
    ELSE IF Len(header_bytearray) # HEADER_LENGTH
    THEN Mutated(Raise("ValueError", "header length is not correct"), header_bytearray)
    ELSE LET field_position == HEADER_LOCATIONS[field]
         IN  Mutated(Return(<<>>),
                     [j \in 1..Len(header_bytearray) |->
                         IF j - field_position \in 1..HEADER_BYTELENGTHS[field]
                         THEN value[j - field_position]
                         ELSE header_bytearray[j]])

write_header_crc(header_bytearray) ==
    LET new_crc == crc16fun(PySlice(header_bytearray, 0, crc16_position))
        new_crc_packed == bin_pack(new_crc, HEADER_BYTELENGTHS["crc-16"])
    IN  set_header_field(header_bytearray, "crc-16", new_crc_packed)

\* the headers patched: one with every field non-zero, one of pack's defaults
PatchHeaders == {HeaderFull, AutoHeader(HeaderTypes, Hello, 1500000000, 0)}

\* how many of the last bytes of a value written are non-zero
MaxValueBytes == 2

\* n bytes, the last MaxValueBytes of them non-zero
LowRamp(n) == [j \in 1..n |-> IF j > n - MaxValueBytes THEN j ELSE 0]

\* the values written into a field: of its width, one byte longer, empty.
\* (ext_header and resp_session get zeros only: bytes 20-23 are the top of an
\* 8-byte field for the decoder, beyond the integers of the model)
PatchValues(field) ==
    LET n == IF field \in DOMAIN HEADER_BYTELENGTHS THEN HEADER_BYTELENGTHS[field] ELSE 2
    IN  {Zeros(n), Ramp(n + 1), <<>>}
            \cup (IF field \in {"ext_header", "resp_session"} THEN {} ELSE {LowRamp(n)})

PatchFields == (DOMAIN HEADER_LOCATIONS) \cup {"checksum"}

\* set_header_field(header, field, value) on the header pack_header has just
\* returned, or on that header less its last byte
SetHeaderField(field, value, cut) ==
    /\ last.op = "pack_header"
    /\ last.res.exc = "none"
    /\ LET header == PySlice(last.res.val, 0, HEADER_LENGTH - cut)
       IN  last' = [op |-> "set_header_field",
                    arg |-> [header |-> header, field |-> field, value |-> value],
                    res |-> set_header_field(header, field, value)]
    /\ UNCHANGED <<SEQUENCE, gen, out, count, thr, sent, drv, pub>>

\* write_header_crc(header) on the header set_header_field has just written to
WriteHeaderCrc ==
    /\ last.op = "set_header_field"
    /\ last.res.exc = "none"
    /\ last' = [op |-> "write_header_crc", arg |-> last.arg,
                res |-> write_header_crc(last.res.header)]
    /\ UNCHANGED <<SEQUENCE, gen, out, count, thr, sent, drv, pub>>

NextPatch ==
    \/ \E h \in PatchHeaders : PackHeaderFirst(h)
    \/ \E field \in PatchFields, cut \in {0, 1} :
          \E value \in PatchValues(field) : SetHeaderField(field, value, cut)
    \/ WriteHeaderCrc

SpecPatch == InitTamper /\ [][NextPatch]_vars

\* what _unpack_header makes of the bytes of a field
DecodedValue(field, value) ==
    CASE field = "prot_ver" -> _unpack_version(value)
      [] field = "flags"    -> _unpack_flags(value)
      [] OTHER              -> _bin_unpack(value)

\* C20: on a 40-byte header from pack_header, set_header_field(header, field,
\* value) for a field other than crc-16 and a value of the field's width,
\* followed by write_header_crc(header), leaves a header that _unpack_header
\* accepts, in which the field decodes to the value and every other field to
\* what it decoded to before; with a value or a header of the wrong length
\* set_header_field raises and the header's bytes are as they were.
C20_PatchedFieldDecodes ==
    /\ (/\ last.op = "set_header_field"
        /\ last.arg.field \in DOMAIN HEADER_LOCATIONS
        /\ \/ Len(last.arg.value) # HEADER_BYTELENGTHS[last.arg.field]
           \/ Len(last.arg.header) # HEADER_LENGTH)
          => /\ last.res.exc = "ValueError"
             /\ last.res.header = last.arg.header
    /\ (/\ last.op = "write_header_crc"
        /\ last.arg.field # "crc-16")
          => LET before == _unpack_header(last.arg.header)
                 after  == _unpack_header(last.res.header)
             IN  /\ last.res.exc = "none"
                 /\ after.exc = "none"
                 /\ after.val[last.arg.field] = DecodedValue(last.arg.field, last.arg.value)
                 /\ \A g \in (DOMAIN after.val) \ {last.arg.field} :
                       after.val[g] = before.val[g]

---------------------------------------------------------------------------
(* Python's str methods on token strings.                                   *)

\* str.isspace of a token
IsSpace(t) == t \in {" ", "\n"}

\* s.find(t) + 1: the place of the first token t in s, 0 when there is none
RECURSIVE FindFrom(_, _, _)
FindFrom(s, t, i) ==
    IF i > Len(s) THEN 0
    ELSE IF s[i] = t THEN i
    ELSE FindFrom(s, t, i + 1)

\* t in s
Contains(s, t) == FindFrom(s, t, 1) # 0

\* s.startswith(t)
StartsWith(s, t) == Len(s) > 0 /\ s[1] = t

\* s.partition(sep): (before, sep, after), or (s, '', '') when sep is not in s
Partition(s, sep) ==
    LET i == FindFrom(s, sep, 1)
    IN  IF i = 0 THEN <<s, <<>>, <<>>>>
        ELSE <<SubSeq(s, 1, i - 1), <<sep>>, SubSeq(s, i + 1, Len(s))>>

RECURSIVE LStrip(_)
LStrip(s) == IF Len(s) > 0 /\ IsSpace(s[1]) THEN LStrip(Tail(s)) ELSE s

RECURSIVE RStrip(_)
RStrip(s) ==
    IF Len(s) > 0 /\ IsSpace(s[Len(s)]) THEN RStrip(SubSeq(s, 1, Len(s) - 1)) ELSE s

\* s.strip()
Strip(s) == RStrip(LStrip(s))

\* the length of the run of non-space tokens s starts with
RECURSIVE WordLen(_)
WordLen(s) == IF Len(s) = 0 \/ IsSpace(s[1]) THEN 0 ELSE 1 + WordLen(Tail(s))

\* s.split(): the runs of non-space tokens
RECURSIVE Split(_)
Split(s) ==
    LET t == LStrip(s)
        n == WordLen(t)
    IN  IF Len(t) = 0 THEN <<>>
        ELSE <<SubSeq(t, 1, n)>> \o Split(SubSeq(t, n + 1, Len(t)))

\* s.split(sep): the pieces between the tokens sep
RECURSIVE SplitOn(_, _)
SplitOn(s, sep) ==
    LET i == FindFrom(s, sep, 1)
    IN  IF i = 0 THEN <<s>>
        ELSE <<SubSeq(s, 1, i - 1)>> \o SplitOn(SubSeq(s, i + 1, Len(s)), sep)

\* sep.join(strings)
RECURSIVE Join(_, _)
Join(strings, sep) ==
    IF Len(strings) = 0 THEN <<>>
    ELSE IF Len(strings) = 1 THEN strings[1]
    ELSE strings[1] \o <<sep>> \o Join(Tail(strings), sep)

---------------------------------------------------------------------------
(* The serial driver: dispatch(ser, command) and the readline it calls.     *)
(* A step is one ser.readline() call returning, followed by the code up to  *)
(* the next ser.readline() call or to the end of dispatch.  The clock moves *)
(* while ser.readline() waits (the port is opened with timeout=1.0).        *)

\* check_global_timeout: time.time() - last_readline > 300.0
GlobalTimeout(f) == f.idle > 300

\* time.time() - start > 15.0
DispatchTimeout(f) == f.elapsed > 15

\* dispatch ends with an exception
DrvRaise(f, e, m) == [f EXCEPT !.pc = "raised", !.res = Raise(e, m)]

\* from the top of either loop of dispatch to the ser.readline() call in readline
\* (readline's own check_global_timeout passes when dispatch's has just passed)
LoopTop(f) ==
    IF GlobalTimeout(f)
    THEN DrvRaise(f, "TimeoutError", "Unable to read line")
    ELSE IF DispatchTimeout(f)
    THEN DrvRaise(f, "TimeoutError", "dispatch timed out")
    ELSE f

\* from the top of the loop of readline: check_global_timeout raises into
\* dispatch, which catches TimeoutError and continues at the top of its loop;
\* otherwise ser.readline() is called again
ReadlineTop(f) == IF GlobalTimeout(f) THEN LoopTop(f) ELSE f

\* the header loop from the line readline has returned
HeaderLoopLine(f, line) ==
    LET p      == Partition(line, "<<<-")
        fields == Split(p[3])
    IN  IF p[2] = <<>> THEN LoopTop(f)
        ELSE IF Len(fields) = 0
        THEN DrvRaise(f, "IndexError", "list index out of range")
        ELSE IF Len(SplitOn(fields[1], "=")) < 2
        THEN DrvRaise(f, "IndexError", "list index out of range")
        ELSE LoopTop([f EXCEPT !.pc = "read_footer",
                               !.sid = SplitOn(fields[1], "=")[2],
                               !.lines = <<>>])

\* '@{} ok\n{}'.format(sid, '\n'.join(lines))
Response(sid, lines) == <<"@">> \o sid \o <<" ", "ok", "\n">> \o Join(lines, "\n")

\* the footer loop from the line readline has returned
FooterLoopLine(f, line) ==
    IF Contains(line, "<<<-")
    THEN DrvRaise(f, "RuntimeError", "unexpected message header")
    ELSE LET p == Partition(line, "->>>")
             g == IF p[1] # <<>> THEN [f EXCEPT !.lines = Append(@, Strip(p[1]))] ELSE f
         IN  IF p[2] # <<>>
             THEN [g EXCEPT !.pc = "returned", !.res = Return(Response(g.sid, g.lines))]
             ELSE LoopTop(g)

\* what ser.readline() hands back: bytes that decode to a text (the empty text
\* when the port's timeout has expired), or bytes that do not decode
Decoded(text) == [kind |-> "text", text |-> text]

Undecodable == [kind |-> "undecodable", text |-> <<>>]

\* readline from the return of ser.readline() on (rx is not a variable of the
\* driver: it records the lines read from the device since dispatch was called)
ReadlineResume(f, x) ==
    IF x.kind = "undecodable" THEN ReadlineTop(f)
    ELSE IF Len(x.text) = 0 THEN LoopTop(f)
    ELSE LET g == [f EXCEPT !.idle = 0, !.rx = Append(@, x.text)]
         IN  IF StartsWith(x.text, "log:") THEN ReadlineTop(g)
             ELSE IF f.pc = "read_header" THEN HeaderLoopLine(g, x.text)
             ELSE FooterLoopLine(g, x.text)

\* the longest time followed after the command is written, in seconds
MaxWait == 18

\* the most lines the device sends during one dispatch call
MaxLines == 4

\* seconds since the last line was read when dispatch is called
StartIdle == {0, 295, 301}

\* the lines the device sends
HeaderLine == <<"<<<-", " ", "sid", "=", "7", " ", "ver", "\n">>

DeviceLines ==
    {HeaderLine,
     <<"<<<-", "\n">>,
     <<"a", "\n">>,
     <<"\n">>,
     <<"->>>", "\n">>,
     <<"b", " ", "->>>", " ", "a", "\n">>,
     <<"log:", " ", "a", "\n">>}

\* what ser.readline() may hand back, and after how many seconds
SerialReads ==
    ({Decoded(line) : line \in DeviceLines} \X {0, 1})
        \cup {<<Undecodable, 0>>, <<Undecodable, 1>>, <<Decoded(<<>>), 1>>}

\* manager: response = dispatch(ser, command), up to the first ser.readline()
DispatchCall(idle) ==
    /\ drv.pc \in {"idle", "returned"}
    /\ drv' = LoopTop([NoDispatch EXCEPT !.pc = "read_header", !.idle = idle])
    /\ UNCHANGED <<SEQUENCE, gen, out, count, last, thr, sent, pub>>

\* ser.readline() hands back x after d seconds
SerReadline(x, d) ==
    /\ drv.pc \in {"read_header", "read_footer"}
    /\ drv.elapsed + d <= MaxWait
    /\ (x.kind = "text" /\ Len(x.text) > 0) => Len(drv.rx) < MaxLines
    /\ drv' = ReadlineResume([drv EXCEPT !.elapsed = @ + d, !.idle = @ + d], x)
    /\ UNCHANGED <<SEQUENCE, gen, out, count, last, thr, sent, pub>>

NextDriver ==
    \/ \E idle \in StartIdle : DispatchCall(idle)
    \/ \E r \in SerialReads : SerReadline(r[1], r[2])

SpecDriver == InitTamper /\ [][NextDriver]_vars


\* a line readline keeps to itself
IsLogLine(line) == StartsWith(line, "log:")

NotLogLine(line) == ~IsLogLine(line)

\* the lines of the run that readline has returned to dispatch
Returned == SelectSeq(drv.rx, NotLogLine)

\* the place in s of the first line with the header marker, 0 when there is none
RECURSIVE FirstHeader(_, _)
FirstHeader(s, i) ==
    IF i > Len(s) THEN 0
    ELSE IF Contains(s[i], "<<<-") THEN i
    ELSE FirstHeader(s, i + 1)

\* the text of a line left of any footer marker, without the blanks around it
TextOf(line) == Strip(Partition(line, "->>>")[1])

NonEmpty(text) == text # <<>>

\* the non-empty texts of the lines s[i..Len(s)], in order
RECURSIVE TextsFrom(_, _)
TextsFrom(s, i) ==
    IF i > Len(s) THEN <<>>
    ELSE (IF NonEmpty(TextOf(s[i])) THEN <<TextOf(s[i])>> ELSE <<>>) \o TextsFrom(s, i + 1)

\* the session id a header line names
SidOf(line) == SplitOn(Split(Partition(line, "<<<-")[3])[1], "=")[2]

\* C21: dispatch returns only after a line with '<<<-' and, later, a line with
\* '->>>' have been read; what it returns is '@<sid> ok' followed by the
\* non-empty texts (left of any footer marker) of the lines read after the
\* header line up to and including the footer line, in order, 'log:' lines
\* left out; a second line with '<<<-' read before the footer makes dispatch
\* raise RuntimeError.
C21_DispatchResponse ==
    LET h == FirstHeader(Returned, 1)
        n == Len(Returned)
    IN  /\ drv.pc = "returned" =>
              /\ h # 0
              /\ h < n
              /\ Contains(Returned[n], "->>>")
              /\ \A k \in (h + 1)..(n - 1) : ~Contains(Returned[k], "->>>")
              /\ drv.res = Return(<<"@">> \o SidOf(Returned[h]) \o <<" ", "ok", "\n">>
                                    \o Join(TextsFrom(Returned, h + 1), "\n"))
        /\ (h # 0 /\ \E k \in (h + 1)..n : Contains(Returned[k], "<<<-"))
              => drv.res = Raise("RuntimeError", "unexpected message header")

\* C22: dispatch always ends: no wait for the device begins once more than 15
\* seconds have passed since the command was written, nor once more than 300
\* seconds have passed since a line was last read; the call has then raised
\* TimeoutError.
C22_DispatchEnds ==
    drv.pc \in {"read_header", "read_footer"} =>
        /\ drv.elapsed <= 15
        /\ drv.idle <= 300


---------------------------------------------------------------------------
(* The serial publisher: the loop of wagman-publisher.py.  A step is one    *)
(* serial.readline() call returning (the port is opened with timeout=8: an  *)
(* empty read is a timeout) followed by the rest of the loop body.          *)

\* re.match(r'.*sid=(\S+)', line).group(1): the run of non-space tokens after
\* the last 'sid=' that has one, or '' when the line does not match
RECURSIVE LastSid(_, _)
LastSid(line, i) ==
    IF i < 1 THEN <<>>
    ELSE IF /\ line[i] = "sid"
            /\ i + 2 <= Len(line)
            /\ line[i + 1] = "="
            /\ ~IsSpace(line[i + 2])
         THEN SubSeq(line, i + 2, i + 1 + WordLen(SubSeq(line, i + 2, Len(line))))
         ELSE LastSid(line, i - 1)

\* session_id after a header line
SessionId(line) == RStrip(LastSid(line, Len(line)))

\* commandname after a header line: fields[-1]
CommandName(line) == Split(line)[Len(Split(line))]

\* the message sent at a footer: header, newline, body
CommandMessage(session_id, commandname, output) ==
    (IF session_id # <<>>
        THEN session_id \o <<" ", "cmd.">> \o commandname
        ELSE <<"cmd.">> \o commandname)
    \o <<"\n">> \o Join(output, "\n")

NotConnected == <<"error: not connected to wagman">>

\* the loop body after line = serial.readline().decode().strip()
PublisherLine(f, line) ==
    IF f.incommand
    THEN IF StartsWith(line, "->>>")
         THEN [f EXCEPT !.incommand = FALSE,
                        !.published = Append(@, CommandMessage(f.session_id, f.commandname, f.output)),
                        !.output = <<>>]
         ELSE [f EXCEPT !.output = Append(@, line)]
    ELSE IF StartsWith(line, "<<<-")
    THEN [f EXCEPT !.session_id = SessionId(line),
                   !.commandname = CommandName(line),
                   !.incommand = TRUE]
    ELSE IF StartsWith(line, "log:")
    THEN [f EXCEPT !.published = Append(@, line)]
    ELSE f

\* the loop body from the return of serial.readline() on; an exception leaves
\* the with block and is reported (rx is not a variable of the publisher: it
\* records what serial.readline() has returned on this connection)
PublisherRead(f, x) ==
    LET g == [f EXCEPT !.rx = Append(@, x)]
    IN  IF x.kind = "undecodable"
        THEN [g EXCEPT !.pc = "closed", !.published = Append(@, NotConnected)]
        ELSE PublisherLine(g, Strip(x.text))

\* the most reads on one connection
MaxReads == 5

HeaderLineNoSid == <<"<<<-", " ", "ver", "\n">>

PublisherLines ==
    { HeaderLine,
      HeaderLineNoSid,
      <<"a", "\n">>,
      <<"\n">>,
      <<"->>>", "\n">>,
      <<"log:", " ", "a", "\n">> }

\* what serial.readline() returns: a line, undecodable bytes, or nothing
\* after 8 seconds
PublisherReads ==
    {Decoded(line) : line \in PublisherLines} \cup {Decoded(<<>>), Undecodable}

\* with Serial(...) as serial: the state of lines 50-54
Connect ==
    /\ pub.pc = "closed"
    /\ pub' = [NoConnection EXCEPT !.pc = "open"]
    /\ UNCHANGED <<SEQUENCE, gen, out, count, last, thr, sent, drv>>

SerialReadline(x) ==
    /\ pub.pc = "open"
    /\ Len(pub.rx) < MaxReads
    /\ pub' = PublisherRead(pub, x)
    /\ UNCHANGED <<SEQUENCE, gen, out, count, last, thr, sent, drv>>

NextPublisher ==
    \/ Connect
    \/ \E x \in PublisherReads : SerialReadline(x)

SpecPublisher == InitTamper /\ [][NextPublisher]_vars

\* a read that brought a line (an empty read is the 8 second timeout)
IsLine(x) == x.kind = "text" /\ Len(x.text) > 0

\* what the reads s[i..Len(s)] publish, read as a protocol: a header line
\* outside a command opens one, the next footer line closes it and publishes
\* it with the lines received in between as its body; a 'log:' line outside
\* a command is published as it is.  hdr is the header of the open command
\* (<<>> outside a command) and body the lines received since.
RECURSIVE Publications(_, _, _, _)
Publications(s, i, hdr, body) ==
    IF i > Len(s) THEN <<>>
    ELSE LET line == Strip(s[i].text)
         IN  IF ~IsLine(s[i]) THEN Publications(s, i + 1, hdr, body)
             ELSE IF hdr # <<>>
             THEN IF StartsWith(line, "->>>")
                  THEN <<CommandMessage(SessionId(hdr), CommandName(hdr), body)>>
                           \o Publications(s, i + 1, <<>>, <<>>)
                  ELSE Publications(s, i + 1, hdr, Append(body, line))
             ELSE IF StartsWith(line, "<<<-")
             THEN Publications(s, i + 1, line, <<>>)
             ELSE IF StartsWith(line, "log:")
             THEN <<line>> \o Publications(s, i + 1, <<>>, <<>>)
             ELSE Publications(s, i + 1, <<>>, <<>>)

IsPublication(msg) == msg # NotConnected

\* C23: within one serial connection, the command messages and log lines
\* published are exactly these: one command message per header line followed
\* by a footer line, headed '<sid> cmd.<name>' (or 'cmd.<name>') after that
\* header and with the lines received strictly between the two as its body,
\* in order; and each 'log:' line received outside a command, as it is.
\* Outside a command the accumulated output is empty.
C23_PublishedCommands ==
    /\ SelectSeq(pub.published, IsPublication) = Publications(pub.rx, 1, <<>>, <<>>)
    /\ ~pub.incommand => pub.output = <<>>

=============================================================================
